---- MODULE Spec2Model ----
(***************************************************************************)
(* Allui: a SwiftUI-like builder API over the GPUI element tree.           *)
(*                                                                         *)
(* Builder values (views, modifiers, colors) are records; rendering is a   *)
(* recursive operator from a builder value to a host element tree; a click *)
(* invokes a handler registered on an element of that tree.                *)
(*                                                                         *)
(* f32 arguments in [0, 1] are written in thousandths (0.24 is 240);       *)
(* pixel sizes are whole numbers.  Option<T> is a sequence: <<>> is None   *)
(* and <<x>> is Some(x).                                                   *)
(***************************************************************************)
EXTENDS Integers, Sequences, FiniteSets, TLC

VARIABLES
    view,      \* the builder value under construction (consumed by render)
    calls,     \* history of the builder calls made on view, in call order
    tree,      \* Option<element>: the element tree emitted by render
    clicks,    \* number of clicks the host has delivered to the tree
    invoked,   \* click handlers run so far, in order
    built,     \* view-builder closures run so far, with their argument
    color,     \* a style::Color value
    resolved   \* Option: the last Color::resolve call, [dark_mode, hsla]

vars == <<view, calls, tree, clicks, invoked, built, color, resolved>>

None == <<>>
Some(x) == <<x>>
IsSome(o) == Len(o) = 1
Unwrap(o) == o[1]

Max2(a, b) == IF a >= b THEN a ELSE b
Min2(a, b) == IF a <= b THEN a ELSE b

(***************************************************************************)
(* style/color.rs                                                          *)
(***************************************************************************)

\* Largest alpha argument tried with Color::opacity, in steps of 0.25.
MaxAlphaStep == 4

\* `(x * 255.0) as u32` for x in thousandths: the cast truncates.
Chan(x) == (x * 255) \div 1000

\* gpui's Rgba -> Hsla conversion applied by `.into()`: hue in 1/3600 of a
\* turn, saturation in 1/1000, lightness in 1/510, alpha in 1/255000.
RgbaToHsla(r, g, b, a) ==
    LET max == Max2(r, Max2(g, b))
        min == Min2(r, Min2(g, b))
        delta == max - min
        l == max + min
        s == IF l = 0 \/ l = 510 THEN 0
             ELSE IF l < 255 THEN (delta * 1000) \div l
             ELSE (delta * 1000) \div (510 - l)
        h == IF delta = 0 THEN 0
             ELSE IF max = r THEN (((g - b) * 600) \div delta) % 3600
             ELSE IF max = g THEN ((b - r) * 600) \div delta + 1200
             ELSE ((r - g) * 600) \div delta + 2400
    IN [a |-> a * 1000, l |-> l, s |-> s, h |-> h]

\* The word handed to gpui::rgba is r<<24 + g<<16 + b<<8 + a; gpui takes
\* each channel back out of it as one byte.
static_rgba(r, g, b, a) ==
    [hsla |-> RgbaToHsla(Chan(r) % 256, Chan(g) % 256, Chan(b) % 256, Chan(a) % 256),
     semantic |-> None]

static_rgb(r, g, b) == static_rgba(r, g, b, 1000)

\* gpui::rgb(hex): the three low bytes are the channels, alpha is 1.0.
static_hex(hex) ==
    [hsla |-> RgbaToHsla((hex \div 65536) % 256, (hex \div 256) % 256, hex % 256, 255),
     semantic |-> None]

SemanticColor ==
    {"Label", "SecondaryLabel", "TertiaryLabel", "SystemBackground",
     "SecondarySystemBackground", "TertiarySystemBackground", "Separator",
     "OpaqueSeparator", "TextFieldBackground", "TextFieldBorder"}

\* 0x1c1c1e, 0x2c2c2e, 0x38383a
Hex1c1c1e == 1842206
Hex2c2c2e == 2890798
Hex38383a == 3684410

SemanticResolve(semantic, dark_mode) ==
    CASE semantic = "Label" /\ ~dark_mode -> static_rgb(0, 0, 0).hsla
      [] semantic = "Label" /\ dark_mode -> static_rgb(1000, 1000, 1000).hsla
      [] semantic = "SecondaryLabel" /\ ~dark_mode -> static_rgba(240, 240, 260, 600).hsla
      [] semantic = "SecondaryLabel" /\ dark_mode -> static_rgba(920, 920, 960, 600).hsla
      [] semantic = "TertiaryLabel" /\ ~dark_mode -> static_rgba(240, 240, 260, 300).hsla
      [] semantic = "TertiaryLabel" /\ dark_mode -> static_rgba(920, 920, 960, 300).hsla
      [] semantic = "SystemBackground" /\ ~dark_mode -> static_rgb(1000, 1000, 1000).hsla
      [] semantic = "SystemBackground" /\ dark_mode -> static_rgb(0, 0, 0).hsla
      [] semantic = "SecondarySystemBackground" /\ ~dark_mode -> static_rgb(950, 950, 970).hsla
      [] semantic = "SecondarySystemBackground" /\ dark_mode -> static_hex(Hex1c1c1e).hsla
      [] semantic = "TertiarySystemBackground" /\ ~dark_mode -> static_rgb(1000, 1000, 1000).hsla
      [] semantic = "TertiarySystemBackground" /\ dark_mode -> static_hex(Hex2c2c2e).hsla
      [] semantic = "Separator" /\ ~dark_mode -> static_rgba(240, 240, 260, 290).hsla
      [] semantic = "Separator" /\ dark_mode -> static_rgba(330, 330, 350, 600).hsla
      [] semantic = "OpaqueSeparator" /\ ~dark_mode -> static_rgb(780, 780, 800).hsla
      [] semantic = "OpaqueSeparator" /\ dark_mode -> static_hex(Hex38383a).hsla
      [] semantic = "TextFieldBackground" /\ ~dark_mode -> static_rgb(1000, 1000, 1000).hsla
      [] semantic = "TextFieldBackground" /\ dark_mode -> static_rgb(118, 118, 118).hsla
      [] semantic = "TextFieldBorder" /\ ~dark_mode -> static_rgb(850, 850, 850).hsla
      [] semantic = "TextFieldBorder" /\ dark_mode -> static_rgb(247, 247, 247).hsla

\* Color::label() ... Color::text_field_border()
Adaptive(semantic) ==
    [hsla |-> SemanticResolve(semantic, FALSE), semantic |-> Some(semantic)]

ColorRgba(r, g, b, a) == static_rgba(r, g, b, a)
ColorRgb(r, g, b) == ColorRgba(r, g, b, 1000)

\* Color::hsla(h, s, l, a) with each argument in thousandths
ColorHsla(h, s, l, a) ==
    [hsla |-> [a |-> a * 255, l |-> (l * 510) \div 1000, s |-> s,
               h |-> (h * 3600) \div 1000],
     semantic |-> None]

\* clear, black, white, gray, red, orange, yellow, green, mint, teal, cyan,
\* blue, indigo, purple, pink, brown; primary() is blue, secondary() is gray
PredefinedStatic ==
    {ColorRgba(0, 0, 0, 0), ColorRgb(0, 0, 0), ColorRgb(1000, 1000, 1000),
     ColorRgb(500, 500, 500), ColorRgb(1000, 230, 190), ColorRgb(1000, 580, 0),
     ColorRgb(1000, 800, 0), ColorRgb(200, 780, 350), ColorRgb(0, 780, 750),
     ColorRgb(190, 690, 780), ColorRgb(390, 820, 1000), ColorRgb(0, 480, 1000),
     ColorRgb(350, 340, 840), ColorRgb(690, 320, 870), ColorRgb(1000, 180, 330),
     ColorRgb(640, 520, 370)}

ColorRed == ColorRgb(1000, 230, 190)
ColorBlue == ColorRgb(0, 480, 1000)
ColorLabel == Adaptive("Label")

\* Opacity that only rewrites the stored alpha and leaves the color adaptive.
Opacity_keeps_semantic(c, alpha) ==
    [hsla |-> [c.hsla EXCEPT !.a = alpha * 255], semantic |-> c.semantic]

\* Color::opacity(alpha), alpha in thousandths
Opacity(c, alpha) ==
    LET base_hsla == IF IsSome(c.semantic)
                     THEN SemanticResolve(Unwrap(c.semantic), FALSE)
                     ELSE c.hsla
    IN [hsla |-> [base_hsla EXCEPT !.a = alpha * 255], semantic |-> None]

\* A resolve that always answers with the stored light-mode value.
Resolve_ignores_mode(c, dark_mode) == c.hsla

\* Color::resolve(dark_mode)
Resolve(c, dark_mode) ==
    IF IsSome(c.semantic) THEN SemanticResolve(Unwrap(c.semantic), dark_mode)
    ELSE c.hsla

is_semantic(c) == IsSome(c.semantic)

(***************************************************************************)
(* Host elements (gpui div)                                                *)
(***************************************************************************)

\* div(): no id, no style, no children, no click listener
Div == [id |-> None, styles |-> {}, children |-> <<>>, on_click |-> None, text |-> None]

\* a string child
TextNode(s) == [Div EXCEPT !.text = Some(s)]

Styled(e, s) == [e EXCEPT !.styles = @ \cup {s}]
WithChild(e, c) == [e EXCEPT !.children = Append(@, c)]
WithChildren(e, cs) == [e EXCEPT !.children = @ \o cs]
WithId(e, id) == [e EXCEPT !.id = Some(id)]
WithOnClick(e, h) == [e EXCEPT !.on_click = Some(h)]

\* border_1 / border_2 / border_4 / border_8 chosen from the width
BorderStyle(width) ==
    IF width <= 1 THEN <<"border_1">>
    ELSE IF width <= 2 THEN <<"border_2">>
    ELSE IF width <= 4 THEN <<"border_4">>
    ELSE <<"border_8">>

\* shadow_sm / shadow_md / shadow_lg / shadow_xl chosen from the radius
ShadowStyle(radius) ==
    IF radius <= 2 THEN <<"shadow_sm">>
    ELSE IF radius <= 4 THEN <<"shadow_md">>
    ELSE IF radius <= 8 THEN <<"shadow_lg">>
    ELSE <<"shadow_xl">>

\* HorizontalAlignment::apply_as_justify
apply_as_justify(horizontal, e) ==
    Styled(e, CASE horizontal = "Leading" -> <<"justify_start">>
                [] horizontal = "Center" -> <<"justify_center">>
                [] horizontal = "Trailing" -> <<"justify_end">>)

\* HorizontalAlignment::apply_as_items and VerticalAlignment::apply_as_items
apply_as_items(alignment, e) ==
    Styled(e, CASE alignment \in {"Leading", "Top"} -> <<"items_start">>
                [] alignment = "Center" -> <<"items_center">>
                [] alignment \in {"Trailing", "Bottom"} -> <<"items_end">>
                [] alignment \in {"FirstTextBaseline", "LastTextBaseline"} ->
                       <<"items_baseline">>)

(***************************************************************************)
(* Views: components/text.rs, components/link.rs, components/button.rs     *)
(***************************************************************************)

\* Text::new(content)
TextNew(content) == [color |-> None, content |-> content, type |-> "Text"]

\* Link::new(label, action)
LinkNew(label, action) ==
    [color |-> None, id |-> label, type |-> "Link", label |-> label,
     action |-> Some(action)]

\* Button::new(label, action)
ButtonNew(label, action) ==
    [id |-> label, type |-> "Button", label |-> label, action |-> Some(action),
     style |-> "Automatic", disabled |-> FALSE]

\* Button::with_id(id)
ButtonWithId(id) ==
    [id |-> id, type |-> "Button", label |-> "", action |-> None,
     style |-> "Automatic", disabled |-> FALSE]

\* Button::label / on_click / button_style / disabled
ButtonLabel(b, label) == [b EXCEPT !.label = label]
ButtonOnClick(b, action) == [b EXCEPT !.action = Some(action)]
ButtonStyle(b, style) == [b EXCEPT !.style = style]
ButtonDisabled(b, disabled) == [b EXCEPT !.disabled = disabled]

\* Text::foreground_color and Link::foreground_color set the view's own color
SetColor(v, c) == [v EXCEPT !.color = Some(c)]

\* RenderOnce for Text (font, line limit and strikethrough left at their defaults)
RenderText(v, is_dark) ==
    LET element == WithChild(Div, TextNode(v.content))
    IN IF IsSome(v.color)
       THEN Styled(element, <<"text_color", Resolve(Unwrap(v.color), is_dark)>>)
       ELSE element

\* RenderOnce for Link
RenderLink(v, is_dark) ==
    LET c == IF IsSome(v.color) THEN Unwrap(v.color) ELSE ColorBlue
        link == WithChild(
                    Styled(Styled(WithId(Div, v.id), <<"cursor_pointer">>),
                           <<"text_color", Resolve(c, is_dark)>>),
                    TextNode(v.label))
    IN IF IsSome(v.action) THEN WithOnClick(link, Unwrap(v.action)) ELSE link

\* rgb(0x888888), rgb(0x007AFF), rgb(0xFFFFFF)
Hex888888 == 8947848
Hex007AFF == 31487
HexFFFFFF == 16777215

\* A Button render that registers the listener whenever an action is set.
RenderButton_ignores_disabled(v) ==
    LET button == WithChild(WithId(Div, v.id), TextNode(v.label))
    IN IF IsSome(v.action) THEN WithOnClick(button, Unwrap(v.action)) ELSE button

\* RenderOnce for Button
RenderButton(v) ==
    LET base == Styled(Styled(Styled(WithId(Div, v.id), <<"cursor_pointer">>),
                              <<"px", 12>>), <<"py", 6>>)
        styled == CASE v.style \in {"Automatic", "Bordered"} ->
                           Styled(Styled(Styled(base, <<"border_1">>),
                                         <<"border_color", static_hex(Hex888888).hsla>>), <<"rounded", 6>>)
                    [] v.style = "BorderedProminent" ->
                           Styled(Styled(Styled(base, <<"bg", static_hex(Hex007AFF).hsla>>),
                                         <<"text_color", static_hex(HexFFFFFF).hsla>>), <<"rounded", 6>>)
                    [] v.style \in {"Plain", "Borderless"} -> base
        labelled == WithChild(styled, TextNode(v.label))
        clickable == IF IsSome(v.action) /\ ~v.disabled
                     THEN WithOnClick(labelled, Unwrap(v.action))
                     ELSE labelled
    IN IF v.disabled
       THEN Styled(Styled(clickable, <<"opacity", 500>>), <<"cursor_default">>)
       ELSE clickable

(***************************************************************************)
(* modifier.rs                                                             *)
(***************************************************************************)

\* Padding::all(value)
PaddingAll(value) ==
    [top |-> value, leading |-> value, bottom |-> value, trailing |-> value]

\* Frame::size(width, height); Frame::default() centers the child
FrameSize(width, height) ==
    [width |-> Some(width), alignment |-> [horizontal |-> "Center", vertical |-> "Center"], height |-> Some(height),
     min_width |-> None, max_width |-> None, min_height |-> None,
     max_height |-> None]

\* Modified { child, modifier }
Modified(child, modifier) ==
    [type |-> "Modified", child |-> child, modifier |-> modifier]

\* StyledContainer::new(child)
StyledContainerNew(child) ==
    [type |-> "StyledContainer", child |-> child, background |-> None,
     corner_radius |-> None, border_color |-> None, border_width |-> None]

with_background(sc, c) == [sc EXCEPT !.background = Some(c)]
with_corner_radius(sc, radius) == [sc EXCEPT !.corner_radius = Some(radius)]
with_border(sc, c, width) ==
    [sc EXCEPT !.border_color = Some(c), !.border_width = Some(width)]

\* Tappable { child, handler, id }
Tappable(child, id, handler) ==
    [id |-> id, type |-> "Tappable", child |-> child, handler |-> handler]

\* v.<method>(args) as the compiler resolves it: an inherent method of v's
\* type is chosen before the Modifier trait's method of the same name.

\* Modifier::background
background(v, call) == with_background(StyledContainerNew(v), call.color)

\* A corner_radius that has no inherent counterpart on StyledContainer.
corner_radius_always_wraps(v, call) == Modified(v, call)

\* StyledContainer::corner_radius, else Modifier::corner_radius
corner_radius(v, call) ==
    IF v.type = "StyledContainer" THEN with_corner_radius(v, call.radius)
    ELSE Modified(v, call)

\* StyledContainer::border, else Modifier::border
border(v, call) ==
    IF v.type = "StyledContainer" THEN with_border(v, call.color, call.width)
    ELSE Modified(v, call)

\* Text::foreground_color, Link::foreground_color, else Modifier::foreground_color
foreground_color(v, call) ==
    IF v.type \in {"Text", "Link"} THEN SetColor(v, call.color)
    ELSE Modified(v, call)

\* Button::disabled, else Modifier::disabled
disabled(v, call) ==
    IF v.type = "Button" THEN ButtonDisabled(v, call.is_disabled)
    ELSE Modified(v, call)

\* Modifier::on_tap_gesture
on_tap_gesture(v, call) == Tappable(v, call.id, call.handler)

ApplyCall(v, call) ==
    CASE call.kind = "Background" -> background(v, call)
      [] call.kind = "CornerRadius" -> corner_radius(v, call)
      [] call.kind = "Border" -> border(v, call)
      [] call.kind = "Foreground" -> foreground_color(v, call)
      [] call.kind = "Disabled" -> disabled(v, call)
      [] call.kind = "Tap" -> on_tap_gesture(v, call)
      [] OTHER -> Modified(v, call)

\* A padding container that forgets its child.
RenderPadding_drops_child(child, padding) ==
    Styled(Styled(Styled(Styled(Styled(Div, <<"flex_grow">>),
        <<"pt", padding.top>>), <<"pb", padding.bottom>>),
        <<"pl", padding.leading>>), <<"pr", padding.trailing>>)

\* ModifierKind::Padding arm
RenderPadding(child, padding) ==
    WithChild(
        Styled(Styled(Styled(Styled(Styled(Div, <<"flex_grow">>),
            <<"pt", padding.top>>), <<"pb", padding.bottom>>),
            <<"pl", padding.leading>>), <<"pr", padding.trailing>>),
        child)

\* A Hidden arm that keeps the child whatever the flag.
RenderHidden_keeps_child(child, is_hidden) == WithChild(Div, child)

\* ModifierKind::Hidden arm
RenderHidden(child, is_hidden) ==
    IF is_hidden THEN Div ELSE WithChild(Div, child)

\* ModifierKind::Disabled arm: the flag is not read
RenderDisabled(child, is_disabled) == WithChild(Div, child)

\* RenderOnce for ModifiedElement: child is the rendered self.modified.child
RenderModified(child, modifier, is_dark) ==
    CASE modifier.kind = "Padding" -> RenderPadding(child, modifier.padding)
      [] modifier.kind = "Foreground" ->
             WithChild(
                 Styled(Styled(Div, <<"flex_grow">>),
                        <<"text_color", Resolve(modifier.color, is_dark)>>),
                 child)
      [] modifier.kind = "CornerRadius" ->
             WithChild(
                 Styled(Styled(Styled(Div, <<"flex_grow">>),
                        <<"rounded", modifier.radius>>), <<"overflow_hidden">>),
                 child)
      [] modifier.kind = "Border" ->
             WithChild(
                 Styled(Styled(Styled(Div, <<"flex_grow">>),
                        <<"border_color", Resolve(modifier.color, is_dark)>>),
                        BorderStyle(modifier.width)),
                 child)
      [] modifier.kind = "Shadow" ->
             WithChild(Styled(Styled(Div, ShadowStyle(modifier.radius)), <<"flex_grow">>),
                       child)
      [] modifier.kind = "Opacity" ->
             WithChild(Styled(Styled(Div, <<"flex_grow">>), <<"opacity", modifier.value>>),
                       child)
      [] modifier.kind = "Frame" ->
             LET f == modifier.frame
                 c1 == IF IsSome(f.width) THEN Styled(Div, <<"w", Unwrap(f.width)>>) ELSE Div
                 c2 == IF IsSome(f.height) THEN Styled(c1, <<"h", Unwrap(f.height)>>) ELSE c1
                 c3 == IF IsSome(f.min_width)
                       THEN Styled(c2, <<"min_w", Unwrap(f.min_width)>>) ELSE c2
                 c4 == IF IsSome(f.max_width)
                       THEN Styled(c3, <<"max_w", Unwrap(f.max_width)>>) ELSE c3
                 c5 == IF IsSome(f.min_height)
                       THEN Styled(c4, <<"min_h", Unwrap(f.min_height)>>) ELSE c4
                 c6 == IF IsSome(f.max_height)
                       THEN Styled(c5, <<"max_h", Unwrap(f.max_height)>>) ELSE c5
             IN WithChild(
                    apply_as_items(f.alignment.vertical,
                        apply_as_justify(f.alignment.horizontal, Styled(c6, <<"flex">>))),
                    child)
      [] modifier.kind = "Hidden" -> RenderHidden(child, modifier.is_hidden)
      [] modifier.kind = "Disabled" -> RenderDisabled(child, modifier.is_disabled)
      [] modifier.kind = "Scale" -> WithChild(Div, child)
      [] modifier.kind = "Tint" -> WithChild(Div, child)
      [] modifier.kind = "FixedSize" ->
             LET c1 == IF modifier.horizontal THEN Styled(Div, <<"flex_none">>) ELSE Div
                 c2 == IF modifier.vertical THEN Styled(c1, <<"flex_shrink_0">>) ELSE c1
             IN WithChild(c2, child)
      [] modifier.kind = "AspectRatio" -> WithChild(Div, child)

\* RenderOnce for StyledContainerElement: child is the rendered container.child
RenderStyledContainer(child, sc, is_dark) ==
    LET c0 == Styled(Div, <<"flex_grow">>)
        c1 == IF IsSome(sc.background)
              THEN Styled(c0, <<"bg", Resolve(Unwrap(sc.background), is_dark)>>)
              ELSE c0
        c2 == IF IsSome(sc.corner_radius)
              THEN Styled(Styled(c1, <<"rounded", Unwrap(sc.corner_radius)>>),
                          <<"overflow_hidden">>)
              ELSE c1
        c3 == IF IsSome(sc.border_color)
              THEN LET b == Styled(c2, <<"border_color",
                                         Resolve(Unwrap(sc.border_color), is_dark)>>)
                   IN IF IsSome(sc.border_width)
                      THEN Styled(b, BorderStyle(Unwrap(sc.border_width)))
                      ELSE b
              ELSE c2
    IN WithChild(c3, child)

\* RenderOnce for TappableElement
RenderTappable(child, t) ==
    WithChild(WithOnClick(Styled(WithId(Div, t.id), <<"cursor_pointer">>), t.handler),
              child)

(***************************************************************************)
(* layout/control_flow.rs, layout/children_macro.rs and the containers     *)
(***************************************************************************)

\* A view-builder closure is known by its name; called with an argument it
\* returns a Text that shows the name and the argument.
Apply(f, x) == TextNew(<<f, x>>)

\* The record of one call of a view-builder closure
BuiltEntry(f, x) == [builder |-> f, arg |-> x]

\* If::new(condition)
IfNew(condition) ==
    [type |-> "If", condition |-> condition, then_view |-> None, else_view |-> None]

\* If::then(view_builder): the closure is called at once
IfThen(v, f) == [v EXCEPT !.then_view = Some(Apply(f, 0))]

\* If::otherwise(view_builder): the closure is called at once
IfOtherwise(v, f) == [v EXCEPT !.else_view = Some(Apply(f, 0))]

\* IfLet::new(value, view_builder)
IfLetNew(value, f) == [type |-> "IfLet", value |-> value, view_builder |-> Some(f)]

\* VStack::new(), HStack::new(), ZStack::new(), Group::new(), ScrollView::new(id)
VStackNew ==
    [children |-> <<>>, alignment |-> "Center", type |-> "VStack", spacing |-> 8]
HStackNew ==
    [children |-> <<>>, alignment |-> "Center", type |-> "HStack", spacing |-> 8]
ZStackNew ==
    [children |-> <<>>, alignment |-> [horizontal |-> "Center", vertical |-> "Center"],
     type |-> "ZStack"]
GroupNew == [children |-> <<>>, type |-> "Group"]
ScrollViewNew(id) ==
    [id |-> id, children |-> <<>>, type |-> "ScrollView", axes |-> "Vertical",
     shows_indicators |-> TRUE]

ContainerTypes == {"VStack", "HStack", "ZStack", "Group", "ScrollView"}

\* A child that is put in front of the children added before it.
child_prepends(v, x) == [v EXCEPT !.children = <<x>> \o @]

\* impl_child_methods!: child(x) pushes one element
child(v, x) == [v EXCEPT !.children = Append(@, x)]

\* A children call that replaces what was added before it.
children_replaces(v, xs) == [v EXCEPT !.children = xs]

\* impl_child_methods!: children(xs) extends by the iterator's elements
children(v, xs) == [v EXCEPT !.children = @ \o xs]

\* ForEach::new(items, view_builder).into_iter() drained: one view per item
ForEachViews(items, f) == [i \in 1..Len(items) |-> Apply(f, items[i])]

\* The closure calls made while ForEachIter is drained
ForEachBuilds(items, f) == [i \in 1..Len(items) |-> BuiltEntry(f, items[i])]

\* An If render that looks at the views and not at the condition.
RenderIf_ignores_condition(v, then_el, else_el) ==
    IF IsSome(v.then_view) THEN WithChild(Div, then_el)
    ELSE IF IsSome(v.else_view) THEN WithChild(Div, else_el)
    ELSE Div

\* RenderOnce for IfElement: then_el and else_el are the rendered views
RenderIf(v, then_el, else_el) ==
    IF v.condition
    THEN IF IsSome(v.then_view) THEN WithChild(Div, then_el) ELSE Div
    ELSE IF IsSome(v.else_view) THEN WithChild(Div, else_el) ELSE Div

\* An IfLet render whose container loses the built view.
RenderIfLet_drops_view(v, content) == Div

\* RenderOnce for IfLetElement: content is the rendered builder(value)
RenderIfLet(v, content) ==
    IF IsSome(v.value) /\ IsSome(v.view_builder) THEN WithChild(Div, content) ELSE Div

\* RenderOnce for VStack
RenderVStack(v, rendered) ==
    WithChildren(
        apply_as_items(v.alignment,
            Styled(Styled(Styled(Div, <<"flex">>), <<"flex_col">>), <<"gap", v.spacing>>)),
        rendered)

\* RenderOnce for HStack
RenderHStack(v, rendered) ==
    WithChildren(
        apply_as_items(v.alignment,
            Styled(Styled(Styled(Styled(Styled(Div, <<"flex">>), <<"flex_row">>),
                <<"w_full">>), <<"overflow_hidden">>), <<"gap", v.spacing>>)),
        rendered)

\* RenderOnce for ZStack: every child gets a positioned wrapper of its own
RenderZStack(v, rendered) ==
    LET wrapper == apply_as_items(v.alignment.vertical,
                       apply_as_justify(v.alignment.horizontal,
                           Styled(Styled(Styled(Div, <<"absolute">>), <<"inset_0">>),
                                  <<"flex">>)))
        positioned_children == [i \in 1..Len(rendered) |-> WithChild(wrapper, rendered[i])]
    IN WithChildren(Styled(Styled(Div, <<"relative">>), <<"size_full">>),
                    positioned_children)

\* RenderOnce for Group
RenderGroup(v, rendered) == WithChildren(Div, rendered)

\* RenderOnce for ScrollView
RenderScrollView(v, rendered) ==
    LET base == Styled(Styled(WithId(Div, v.id), <<"size_full">>), <<"flex">>)
        scroll ==
            CASE v.axes = "Vertical" /\ v.shows_indicators ->
                     Styled(Styled(base, <<"flex_col">>), <<"overflow_y_scrollbar">>)
              [] v.axes = "Vertical" /\ ~v.shows_indicators ->
                     Styled(Styled(base, <<"flex_col">>), <<"overflow_y_scroll">>)
              [] v.axes = "Horizontal" /\ v.shows_indicators ->
                     Styled(Styled(base, <<"flex_row">>), <<"overflow_x_scrollbar">>)
              [] v.axes = "Horizontal" /\ ~v.shows_indicators ->
                     Styled(Styled(base, <<"flex_row">>), <<"overflow_x_scroll">>)
              [] v.axes = "Both" ->
                     Styled(Styled(base, <<"flex_col">>), <<"overflow_scroll">>)
    IN WithChildren(scroll, rendered)

(***************************************************************************)
(* Label: components/label.rs.  A string is the sequence of its chars, so  *)
(* that to_lowercase and replace act on it char by char.                   *)
(***************************************************************************)

\* The ASCII upper-case letters and their lower-case letters
UpperChars == <<"A", "B", "C", "D", "E", "F", "G", "H", "I", "J", "K", "L", "M", "N", "O", "P", "Q", "R", "S", "T", "U", "V", "W", "X", "Y", "Z">>
LowerChars == <<"a", "b", "c", "d", "e", "f", "g", "h", "i", "j", "k", "l", "m", "n", "o", "p", "q", "r", "s", "t", "u", "v", "w", "x", "y", "z">>

\* str::to_lowercase, on ASCII text
to_lowercase(name) ==
    [i \in 1..Len(name) |->
        IF \E k \in 1..26 : UpperChars[k] = name[i]
        THEN LowerChars[CHOOSE k \in 1..26 : UpperChars[k] = name[i]]
        ELSE name[i]]

\* s starts with pat
StartsWith(s, pat) == Len(s) >= Len(pat) /\ SubSeq(s, 1, Len(pat)) = pat

\* str::replace(pat, ""): one pass from the left, every match found after
\* the end of the match before it is left out
RECURSIVE replace_with_empty(_, _)
replace_with_empty(s, pat) ==
    IF s = <<>> THEN <<>>
    ELSE IF StartsWith(s, pat) THEN replace_with_empty(SubSeq(s, Len(pat) + 1, Len(s)), pat)
    ELSE <<Head(s)>> \o replace_with_empty(Tail(s), pat)

DotFill == <<".", "f", "i", "l", "l">>

\* map_system_image_to_icon: let normalized = name.to_lowercase().replace(".fill", "")
Normalized(name) == replace_with_empty(to_lowercase(name), DotFill)

\* map_system_image_to_icon: the match on normalized
IconMatch(normalized) ==
    CASE normalized = <<"s", "t", "a", "r">> -> Some("Star")
      [] normalized = <<"s", "t", "a", "r", ".", "o", "f", "f">>
             \/ normalized = <<"s", "t", "a", "r", "o", "f", "f">> -> Some("StarOff")
      [] normalized = <<"f", "o", "l", "d", "e", "r">> -> Some("Folder")
      [] normalized = <<"f", "o", "l", "d", "e", "r", ".", "o", "p", "e", "n">>
             \/ normalized = <<"f", "o", "l", "d", "e", "r", "o", "p", "e", "n">> -> Some("FolderOpen")
      [] normalized = <<"g", "e", "a", "r">>
             \/ normalized = <<"g", "e", "a", "r", "s", "h", "a", "p", "e">>
             \/ normalized = <<"s", "e", "t", "t", "i", "n", "g", "s">> -> Some("Settings")
      [] normalized = <<"h", "e", "a", "r", "t">> -> Some("Heart")
      [] normalized = <<"h", "e", "a", "r", "t", ".", "o", "f", "f">>
             \/ normalized = <<"h", "e", "a", "r", "t", "o", "f", "f">> -> Some("HeartOff")
      [] normalized = <<"b", "e", "l", "l">> -> Some("Bell")
      [] normalized = <<"m", "a", "g", "n", "i", "f", "y", "i", "n", "g", "g", "l", "a", "s", "s">>
             \/ normalized = <<"s", "e", "a", "r", "c", "h">> -> Some("Search")
      [] normalized = <<"p", "l", "u", "s">>
             \/ normalized = <<"p", "l", "u", "s", ".", "c", "i", "r", "c", "l", "e">> -> Some("Plus")
      [] normalized = <<"m", "i", "n", "u", "s">>
             \/ normalized = <<"m", "i", "n", "u", "s", ".", "c", "i", "r", "c", "l", "e">> -> Some("Minus")
      [] normalized = <<"c", "h", "e", "c", "k", "m", "a", "r", "k">>
             \/ normalized = <<"c", "h", "e", "c", "k">>
             \/ normalized = <<"c", "h", "e", "c", "k", "m", "a", "r", "k", ".", "c", "i", "r", "c", "l", "e">> -> Some("Check")
      [] normalized = <<"x", "m", "a", "r", "k">>
             \/ normalized = <<"c", "l", "o", "s", "e">>
             \/ normalized = <<"x", "m", "a", "r", "k", ".", "c", "i", "r", "c", "l", "e">> -> Some("Close")
      [] normalized = <<"t", "r", "a", "s", "h">>
             \/ normalized = <<"d", "e", "l", "e", "t", "e">> -> Some("Delete")
      [] normalized = <<"d", "o", "c">>
             \/ normalized = <<"f", "i", "l", "e">>
             \/ normalized = <<"d", "o", "c", ".", "t", "e", "x", "t">> -> Some("File")
      [] normalized = <<"i", "n", "f", "o">>
             \/ normalized = <<"i", "n", "f", "o", ".", "c", "i", "r", "c", "l", "e">> -> Some("Info")
      [] normalized = <<"g", "l", "o", "b", "e">> -> Some("Globe")
      [] normalized = <<"s", "u", "n">>
             \/ normalized = <<"s", "u", "n", ".", "m", "a", "x">> -> Some("Sun")
      [] normalized = <<"m", "o", "o", "n">> -> Some("Moon")
      [] normalized = <<"p", "e", "r", "s", "o", "n">>
             \/ normalized = <<"p", "e", "r", "s", "o", "n", ".", "c", "i", "r", "c", "l", "e">>
             \/ normalized = <<"u", "s", "e", "r">> -> Some("User")
      [] normalized = <<"e", "y", "e">> -> Some("Eye")
      [] normalized = <<"e", "y", "e", ".", "s", "l", "a", "s", "h">>
             \/ normalized = <<"e", "y", "e", "o", "f", "f">> -> Some("EyeOff")
      [] normalized = <<"a", "r", "r", "o", "w", ".", "u", "p">>
             \/ normalized = <<"a", "r", "r", "o", "w", "u", "p">> -> Some("ArrowUp")
      [] normalized = <<"a", "r", "r", "o", "w", ".", "d", "o", "w", "n">>
             \/ normalized = <<"a", "r", "r", "o", "w", "d", "o", "w", "n">> -> Some("ArrowDown")
      [] normalized = <<"a", "r", "r", "o", "w", ".", "l", "e", "f", "t">>
             \/ normalized = <<"a", "r", "r", "o", "w", "l", "e", "f", "t">> -> Some("ArrowLeft")
      [] normalized = <<"a", "r", "r", "o", "w", ".", "r", "i", "g", "h", "t">>
             \/ normalized = <<"a", "r", "r", "o", "w", "r", "i", "g", "h", "t">> -> Some("ArrowRight")
      [] normalized = <<"c", "h", "e", "v", "r", "o", "n", ".", "u", "p">>
             \/ normalized = <<"c", "h", "e", "v", "r", "o", "n", "u", "p">> -> Some("ChevronUp")
      [] normalized = <<"c", "h", "e", "v", "r", "o", "n", ".", "d", "o", "w", "n">>
             \/ normalized = <<"c", "h", "e", "v", "r", "o", "n", "d", "o", "w", "n">> -> Some("ChevronDown")
      [] normalized = <<"c", "h", "e", "v", "r", "o", "n", ".", "l", "e", "f", "t">>
             \/ normalized = <<"c", "h", "e", "v", "r", "o", "n", "l", "e", "f", "t">> -> Some("ChevronLeft")
      [] normalized = <<"c", "h", "e", "v", "r", "o", "n", ".", "r", "i", "g", "h", "t">>
             \/ normalized = <<"c", "h", "e", "v", "r", "o", "n", "r", "i", "g", "h", "t">> -> Some("ChevronRight")
      [] normalized = <<"c", "a", "l", "e", "n", "d", "a", "r">> -> Some("Calendar")
      [] normalized = <<"l", "i", "n", "k">>
             \/ normalized = <<"l", "i", "n", "k", ".", "c", "i", "r", "c", "l", "e">> -> Some("ExternalLink")
      [] normalized = <<"d", "o", "c", ".", "o", "n", ".", "d", "o", "c">>
             \/ normalized = <<"c", "o", "p", "y">> -> Some("Copy")
      [] normalized = <<"e", "l", "l", "i", "p", "s", "i", "s">>
             \/ normalized = <<"e", "l", "l", "i", "p", "s", "i", "s", ".", "c", "i", "r", "c", "l", "e">> -> Some("Ellipsis")
      [] normalized = <<"l", "i", "n", "e", ".", "h", "o", "r", "i", "z", "o", "n", "t", "a", "l", ".", "3">>
             \/ normalized = <<"m", "e", "n", "u">> -> Some("Menu")
      [] normalized = <<"s", "q", "u", "a", "r", "e", ".", "a", "n", "d", ".", "a", "r", "r", "o", "w", ".", "u", "p">>
             \/ normalized = <<"r", "e", "d", "o">> -> Some("Redo")
      [] normalized = <<"s", "q", "u", "a", "r", "e", ".", "a", "n", "d", ".", "a", "r", "r", "o", "w", ".", "d", "o", "w", "n">>
             \/ normalized = <<"u", "n", "d", "o">> -> Some("Undo")
      [] normalized = <<"e", "x", "c", "l", "a", "m", "a", "t", "i", "o", "n", "m", "a", "r", "k", ".", "t", "r", "i", "a", "n", "g", "l", "e">>
             \/ normalized = <<"w", "a", "r", "n", "i", "n", "g">> -> Some("TriangleAlert")
      [] normalized = <<"h", "a", "n", "d", ".", "t", "h", "u", "m", "b", "s", "u", "p">>
             \/ normalized = <<"t", "h", "u", "m", "b", "s", "u", "p">> -> Some("ThumbsUp")
      [] normalized = <<"h", "a", "n", "d", ".", "t", "h", "u", "m", "b", "s", "d", "o", "w", "n">>
             \/ normalized = <<"t", "h", "u", "m", "b", "s", "d", "o", "w", "n">> -> Some("ThumbsDown")
      [] normalized = <<"t", "r", "a", "y">>
             \/ normalized = <<"i", "n", "b", "o", "x">> -> Some("Inbox")
      [] normalized = <<"b", "o", "o", "k">>
             \/ normalized = <<"b", "o", "o", "k", ".", "c", "l", "o", "s", "e", "d">> -> Some("BookOpen")
      [] OTHER -> None

\* map_system_image_to_icon
map_system_image_to_icon(name) == IconMatch(Normalized(name))

\* Label::new(system_image, title)
LabelNew(system_image, title) ==
    [color |-> None, type |-> "Label",
     title |-> title, icon |-> Some([value |-> system_image, kind |-> "String"])]

\* Label::with_icon(icon, title)
LabelWithIcon(icon, title) ==
    [color |-> None, type |-> "Label",
     title |-> title, icon |-> Some([kind |-> "Name", name |-> icon])]

\* Label::title(title)
LabelTitle(title) == [color |-> None, type |-> "Label", title |-> title, icon |-> None]

\* Icon::new(name), with the label's color when it has one
IconElement(name, shade) ==
    LET icon == Styled(Div, <<"icon", name>>)
    IN IF IsSome(shade) THEN Styled(icon, <<"text_color", Unwrap(shade)>>) ELSE icon

\* div().text_size(px(12.0)).child(format!("[{}]", text))
Placeholder(text) ==
    WithChild(Styled(Div, <<"text_size", 12>>), TextNode(<<"[">> \o text \o <<"]">>))

\* A Label render that shows nothing for a name it cannot map
RenderLabel_drops_placeholder(v, is_dark) ==
    LET shade == IF IsSome(v.color) THEN Some(Resolve(Unwrap(v.color), is_dark)) ELSE None
        c0 == Styled(Styled(Styled(Styled(Div, <<"flex">>), <<"flex_row">>),
                            <<"items_center">>), <<"gap", 6>>)
        c1 == IF IsSome(shade) THEN Styled(c0, <<"text_color", Unwrap(shade)>>) ELSE c0
        icon_name == IF ~IsSome(v.icon) THEN None
                     ELSE IF Unwrap(v.icon).kind = "Name" THEN Some(Unwrap(v.icon).name)
                     ELSE map_system_image_to_icon(Unwrap(v.icon).value)
        c2 == IF IsSome(icon_name)
              THEN WithChild(c1, IconElement(Unwrap(icon_name), shade))
              ELSE c1
    IN WithChild(c2, TextNode(v.title))

\* RenderOnce for Label
RenderLabel(v, is_dark) ==
    LET shade == IF IsSome(v.color) THEN Some(Resolve(Unwrap(v.color), is_dark)) ELSE None
        c0 == Styled(Styled(Styled(Styled(Div, <<"flex">>), <<"flex_row">>),
                            <<"items_center">>), <<"gap", 6>>)
        c1 == IF IsSome(shade) THEN Styled(c0, <<"text_color", Unwrap(shade)>>) ELSE c0
        c2 == IF IsSome(v.icon)
              THEN LET label_icon == Unwrap(v.icon)
                       icon_name == IF label_icon.kind = "Name" THEN Some(label_icon.name)
                                    ELSE map_system_image_to_icon(label_icon.value)
                       fallback_text == IF label_icon.kind = "Name" THEN None
                                        ELSE Some(label_icon.value)
                   IN IF IsSome(icon_name)
                      THEN WithChild(c1, IconElement(Unwrap(icon_name), shade))
                      ELSE IF IsSome(fallback_text)
                      THEN WithChild(c1, Placeholder(Unwrap(fallback_text)))
                      ELSE c1
              ELSE c1
    IN WithChild(c2, TextNode(v.title))


\* into_any_element followed by the render pass
RECURSIVE Render(_, _)
Render(v, is_dark) ==
    LET rendered == [i \in 1..Len(v.children) |-> Render(v.children[i], is_dark)]
    IN CASE v.type = "Text" -> RenderText(v, is_dark)
         [] v.type = "Link" -> RenderLink(v, is_dark)
         [] v.type = "Button" -> RenderButton(v)
         [] v.type = "Modified" ->
                RenderModified(Render(v.child, is_dark), v.modifier, is_dark)
         [] v.type = "StyledContainer" ->
                RenderStyledContainer(Render(v.child, is_dark), v, is_dark)
         [] v.type = "Tappable" -> RenderTappable(Render(v.child, is_dark), v)
         [] v.type = "If" ->
                RenderIf(v,
                         IF IsSome(v.then_view) THEN Render(Unwrap(v.then_view), is_dark)
                         ELSE Div,
                         IF IsSome(v.else_view) THEN Render(Unwrap(v.else_view), is_dark)
                         ELSE Div)
         [] v.type = "IfLet" ->
                RenderIfLet(v, IF IsSome(v.value) /\ IsSome(v.view_builder)
                               THEN Render(Apply(Unwrap(v.view_builder), Unwrap(v.value)),
                                           is_dark)
                               ELSE Div)
         [] v.type = "VStack" -> RenderVStack(v, rendered)
         [] v.type = "HStack" -> RenderHStack(v, rendered)
         [] v.type = "ZStack" -> RenderZStack(v, rendered)
         [] v.type = "Group" -> RenderGroup(v, rendered)
         [] v.type = "ScrollView" -> RenderScrollView(v, rendered)
         [] v.type = "Label" -> RenderLabel(v, is_dark)

\* The view-builder closures the render pass calls, in order: IfLet calls
\* its builder when it is rendered with Some(value)
RECURSIVE RenderBuilds(_)
RenderBuilds(v) ==
    CASE v.type = "IfLet" ->
             IF IsSome(v.value) /\ IsSome(v.view_builder)
             THEN <<BuiltEntry(Unwrap(v.view_builder), Unwrap(v.value))>>
             ELSE <<>>
      [] v.type = "If" ->
             IF v.condition
             THEN IF IsSome(v.then_view) THEN RenderBuilds(Unwrap(v.then_view)) ELSE <<>>
             ELSE IF IsSome(v.else_view) THEN RenderBuilds(Unwrap(v.else_view)) ELSE <<>>
      [] v.type = "Modified" ->
             IF v.modifier.kind = "Hidden" /\ v.modifier.is_hidden THEN <<>>
             ELSE RenderBuilds(v.child)
      [] v.type \in {"Tappable", "StyledContainer"} -> RenderBuilds(v.child)
      [] v.type \in ContainerTypes ->
             LET RECURSIVE Cat(_)
                 Cat(i) == IF i > Len(v.children) THEN <<>>
                           ELSE RenderBuilds(v.children[i]) \o Cat(i + 1)
             IN Cat(1)
      [] OTHER -> <<>>

\* The elements of a tree: the root and all its descendants
RECURSIVE Elements(_)
Elements(e) == {e} \cup UNION {Elements(e.children[i]) : i \in 1..Len(e.children)}

\* The positions of a tree: the child indices leading from the root to an element
RECURSIVE Paths(_)
Paths(e) ==
    {<<>>} \cup UNION {{<<i>> \o p : p \in Paths(e.children[i])} : i \in 1..Len(e.children)}

\* The listeners a click at a position runs: the element's own, then those of
\* the elements around it, outwards
RECURSIVE Bubble(_, _)
Bubble(e, path) ==
    LET own == IF IsSome(e.on_click) THEN <<Unwrap(e.on_click)>> ELSE <<>>
    IN IF path = <<>> THEN own
       ELSE Bubble(e.children[path[1]], Tail(path)) \o own

\* The click listeners registered anywhere in an element tree
Listeners(e) == {Unwrap(x.on_click) : x \in {y \in Elements(e) : IsSome(y.on_click)}}

(***************************************************************************)
(* Specification of the modifier chain: a view is built by modifier calls, *)
(* rendered once, and its listeners are clicked.                           *)
(***************************************************************************)

\* Longest chain of modifier calls on one view
MaxChain == 3
\* Most clicks delivered to one rendered tree of a modifier chain
MaxClicks == 1

IdleColor == ColorRgb(0, 0, 0)

BaseViews == {TextNew("Hello"), LinkNew("Visit", "open"), ButtonNew("OK", "submit")}

InitModifier ==
    /\ view \in BaseViews
    /\ calls = <<>>
    /\ tree = None
    /\ clicks = 0
    /\ invoked = <<>>
    /\ built = <<>>
    /\ color = IdleColor
    /\ resolved = None

Call(call) ==
    /\ tree = None
    /\ Len(calls) < MaxChain
    /\ view' = ApplyCall(view, call)
    /\ calls' = Append(calls, call)
    /\ UNCHANGED <<tree, clicks, invoked, built, color, resolved>>

CallPadding == Call([kind |-> "Padding", padding |-> PaddingAll(10)])
CallFrame == Call([kind |-> "Frame", frame |-> FrameSize(100, 50)])
CallFixedSize == Call([horizontal |-> TRUE, vertical |-> FALSE, kind |-> "FixedSize"])
CallAspectRatio == Call([kind |-> "AspectRatio", ratio |-> 1500, content_mode |-> "Fit"])
CallBackground == Call([color |-> ColorRed, kind |-> "Background"])
CallForeground == Call([color |-> ColorLabel, kind |-> "Foreground"])
CallTint == Call([color |-> ColorBlue, kind |-> "Tint"])
CallCornerRadius == Call([radius |-> 8, kind |-> "CornerRadius"])
CallBorder == Call([color |-> ColorBlue, width |-> 2, kind |-> "Border"])
CallShadow == Call([color |-> None, x |-> 0, radius |-> 4, kind |-> "Shadow", y |-> 0])
CallOpacity == Call([value |-> 500, kind |-> "Opacity"])
CallHidden == \E b \in BOOLEAN : Call([kind |-> "Hidden", is_hidden |-> b])
CallDisabled == \E b \in BOOLEAN : Call([is_disabled |-> b, kind |-> "Disabled"])
CallScale == Call([value |-> 2000, kind |-> "Scale"])
CallTap == Call([id |-> "tap", handler |-> "tapped", kind |-> "Tap"])

\* The render pass: cx.theme().is_dark() is whatever the host theme is
RenderView ==
    /\ tree = None
    /\ \E is_dark \in BOOLEAN : tree' = Some(Render(view, is_dark))
    /\ built' = built \o RenderBuilds(view)
    /\ UNCHANGED <<view, calls, clicks, invoked, color, resolved>>

\* The host delivers a click at a point of the tree: the listeners of the
\* element under the point and of the elements around it run, innermost first
ClickUpTo(max) ==
    /\ IsSome(tree)
    /\ clicks < max
    /\ \E path \in Paths(Unwrap(tree)) : invoked' = invoked \o Bubble(Unwrap(tree), path)
    /\ clicks' = clicks + 1
    /\ UNCHANGED <<view, calls, tree, built, color, resolved>>

Click == ClickUpTo(MaxClicks)

NextModifier ==
    \/ CallPadding \/ CallFrame \/ CallFixedSize \/ CallAspectRatio
    \/ CallBackground \/ CallForeground \/ CallTint \/ CallCornerRadius
    \/ CallBorder \/ CallShadow \/ CallOpacity \/ CallHidden \/ CallDisabled
    \/ CallScale \/ CallTap
    \/ RenderView \/ Click

SpecModifier == InitModifier /\ [][NextModifier]_vars

(***************************************************************************)
(* Reading a rendered modifier chain                                       *)
(***************************************************************************)

\* The containers from the root inwards: each has one child that is itself
\* an element; the last one is a leaf view's element or an empty container.
RECURSIVE Spine(_)
Spine(e) ==
    IF Len(e.children) = 1 /\ ~IsSome(e.children[1].text)
    THEN <<e>> \o Spine(e.children[1])
    ELSE <<e>>

\* The view the modifier calls were made on
RECURSIVE Base(_)
Base(v) == IF v.type \in {"Modified", "Tappable", "StyledContainer"} THEN Base(v.child) ELSE v

\* Element e shows the effect of a call
Carries(e, call) ==
    CASE call.kind = "Padding" ->
             {<<"pt", call.padding.top>>, <<"pb", call.padding.bottom>>,
              <<"pl", call.padding.leading>>, <<"pr", call.padding.trailing>>}
                 \subseteq e.styles
      [] call.kind = "Frame" ->
             /\ IsSome(call.frame.width) => <<"w", Unwrap(call.frame.width)>> \in e.styles
             /\ IsSome(call.frame.height) => <<"h", Unwrap(call.frame.height)>> \in e.styles
      [] call.kind = "FixedSize" ->
             /\ call.horizontal => <<"flex_none">> \in e.styles
             /\ call.vertical => <<"flex_shrink_0">> \in e.styles
      [] call.kind = "Background" ->
             \E d \in BOOLEAN : <<"bg", Resolve(call.color, d)>> \in e.styles
      [] call.kind = "Foreground" ->
             \E d \in BOOLEAN : <<"text_color", Resolve(call.color, d)>> \in e.styles
      [] call.kind = "CornerRadius" ->
             {<<"rounded", call.radius>>, <<"overflow_hidden">>} \subseteq e.styles
      [] call.kind = "Border" ->
             /\ \E d \in BOOLEAN : <<"border_color", Resolve(call.color, d)>> \in e.styles
             /\ BorderStyle(call.width) \in e.styles
      [] call.kind = "Shadow" -> ShadowStyle(call.radius) \in e.styles
      [] call.kind = "Opacity" -> <<"opacity", call.value>> \in e.styles
      [] call.kind = "Tap" -> e.id = Some(call.id) /\ e.on_click = Some(call.handler)
      [] OTHER -> TRUE

\* Call k is corner_radius or border made directly on the value background returned
RECURSIVE Merges(_)
Merges(k) ==
    /\ k > 1
    /\ calls[k].kind \in {"CornerRadius", "Border"}
    /\ calls[k - 1].kind = "Background" \/ Merges(k - 1)

\* Call k ran an inherent method of the base view's own type
Inherent(k) ==
    \A j \in 1..k :
        \/ calls[j].kind = "Foreground" /\ Base(view).type \in {"Text", "Link"}
        \/ calls[j].kind = "Disabled" /\ Base(view).type = "Button"

\* The number of containers that calls 1..k put around the base view
Height(k) == Cardinality({j \in 1..k : ~Merges(j) /\ ~Inherent(j)})

\* A later call of the same kind wrote over call k in the same place
Overwritten(k) ==
    \E m \in (k + 1)..Len(calls) :
        calls[m].kind = calls[k].kind /\ Height(m) = Height(k)

\* The last hidden(true) call, 0 when there is none
LastHidden ==
    LET S == {k \in 1..Len(calls) : calls[k].kind = "Hidden" /\ calls[k].is_hidden}
    IN IF S = {} THEN 0 ELSE CHOOSE k \in S : \A j \in S : j <= k

\* C1 as stated: every call of a Modifier method has a container of its own,
\* the k-th call's container is the k-th around the view, and the view is
\* innermost.
C1_EveryCallNests ==
    (IsSome(tree) /\ \A k \in 1..Len(calls) : ~Inherent(k)) =>
        LET sp == Spine(Unwrap(tree))
        IN /\ Len(sp) = Len(calls) + 1
           /\ \E d \in BOOLEAN : sp[Len(sp)] = Render(Base(view), d)
           /\ \A k \in 1..Len(calls) : Carries(sp[Len(sp) - k], calls[k])

\* C1 amended: the containers nest in call order. Calls after the last
\* hidden(true) each sit at the height the call order gives them (a merged
\* corner_radius or border on its background's container, an inherent call
\* on the view itself); the innermost element is the view, or the empty
\* container of the last hidden(true).
C1_CallOrderNesting ==
    IsSome(tree) =>
        LET sp == Spine(Unwrap(tree))
            hid == LastHidden
            n == Height(Len(calls)) - Height(hid)
        IN /\ Len(sp) = n + 1
           /\ IF hid = 0
              THEN \E d \in BOOLEAN : sp[n + 1] = Render(Base(view), d)
              ELSE sp[n + 1] = Div
           /\ \A k \in (hid + 1)..Len(calls) :
                  ~Overwritten(k) => Carries(sp[n + 1 - (Height(k) - Height(hid))], calls[k])

\* v.padding(p).background(c) rendered: padding inside the background
C1_Witness ==
    /\ IsSome(tree)
    /\ Len(calls) = 2
    /\ calls[1].kind = "Padding" /\ calls[2].kind = "Background"
    /\ LET sp == Spine(Unwrap(tree))
       IN Len(sp) = 3 /\ Carries(sp[1], calls[2]) /\ Carries(sp[2], calls[1])

\* The chain is background, corner_radius and border, once each, in some order
VisualChain ==
    /\ Len(calls) = 3
    /\ {calls[k].kind : k \in 1..3} = {"Background", "CornerRadius", "Border"}

\* C2 as stated: background, corner_radius and border applied one after
\* another in any order render as exactly one container carrying all three.
C2_AnyOrderOneContainer ==
    (IsSome(tree) /\ VisualChain) =>
        LET sp == Spine(Unwrap(tree))
        IN /\ Len(sp) = 2
           /\ \A k \in 1..3 : Carries(sp[1], calls[k])

\* C2 amended: with background first, the corner_radius and border that
\* follow it are set on the background's container, so one container carries
\* all three; a corner_radius or border called before background has a
\* container of its own inside the background's container.
C2_BackgroundFirstMerges ==
    (IsSome(tree) /\ VisualChain) =>
        LET sp == Spine(Unwrap(tree))
            bg == CHOOSE k \in 1..3 : calls[k].kind = "Background"
        IN /\ Len(sp) = bg + 1
           /\ \E d \in BOOLEAN : sp[Len(sp)] = Render(Base(view), d)
           /\ \A k \in 1..3 :
                  IF k < bg THEN /\ Carries(sp[Len(sp) - k], calls[k])
                                 /\ ~Carries(sp[1], calls[k])
                  ELSE Carries(sp[1], calls[k])

\* v.background(c).border(bc, w).corner_radius(r) rendered as one container
C2_Witness ==
    /\ IsSome(tree)
    /\ VisualChain
    /\ calls[1].kind = "Background" /\ calls[3].kind = "CornerRadius"
    /\ Len(Spine(Unwrap(tree))) = 2

LastCall == calls[Len(calls)]

\* C5: after v.disabled(true) no click on the rendered tree runs a handler,
\* and v.disabled(false) leaves the listeners of v in place.
C5_DisabledBlocksClicks ==
    (IsSome(tree) /\ calls # <<>> /\ LastCall.kind = "Disabled") =>
        IF LastCall.is_disabled
        THEN Listeners(Unwrap(tree)) = {} /\ invoked = <<>>
        ELSE \E d \in BOOLEAN :
                 Listeners(Unwrap(tree)) =
                     Listeners(Render(IF view.type = "Modified" THEN view.child ELSE view, d))

\* C6: v.hidden(true) renders one empty container, with nothing of v in it
\* and no click running a handler; v.hidden(false) renders one plain
\* container whose only child is v.
C6_HiddenDropsView ==
    (IsSome(tree) /\ calls # <<>> /\ LastCall.kind = "Hidden") =>
        IF LastCall.is_hidden
        THEN /\ Unwrap(tree) = Div
             /\ Elements(Unwrap(tree)) = {Div}
             /\ Listeners(Unwrap(tree)) = {}
             /\ invoked = <<>>
        ELSE \E d \in BOOLEAN : Unwrap(tree) = WithChild(Div, Render(view.child, d))

\* a clickable view hidden by hidden(true), rendered and clicked
C6_Witness ==
    /\ IsSome(tree)
    /\ calls # <<>> /\ LastCall.kind = "Hidden" /\ LastCall.is_hidden
    /\ Listeners(Render(view.child, FALSE)) # {}
    /\ clicks > 0
    /\ Unwrap(tree) = Div

(***************************************************************************)
(* Specification of Color: a color is constructed, opacity is applied to   *)
(* it, and it is resolved against the light or the dark theme.             *)
(***************************************************************************)

\* Most opacity calls chained on one color
MaxColorCalls == 2

IdleView == TextNew("")

Colors ==
    PredefinedStatic
        \cup {Adaptive(semantic) : semantic \in SemanticColor}
        \cup {static_hex(16711680), ColorHsla(500, 1000, 500, 1000)}

AlphaArgs == {250 * i : i \in 0..MaxAlphaStep}

InitColor ==
    /\ color \in Colors
    /\ resolved = None
    /\ calls = <<>>
    /\ view = IdleView
    /\ tree = None
    /\ clicks = 0
    /\ invoked = <<>>
    /\ built = <<>>

\* color = color.opacity(alpha)
ColorOpacity ==
    /\ Len(calls) < MaxColorCalls
    /\ \E alpha \in AlphaArgs :
           /\ color' = Opacity(color, alpha)
           /\ calls' = Append(calls, [alpha |-> alpha, kind |-> "opacity", self |-> color])
    /\ resolved' = None
    /\ UNCHANGED <<view, tree, clicks, invoked, built>>

\* color.resolve(dark_mode)
ColorResolve ==
    /\ \E dark_mode \in BOOLEAN :
           resolved' = Some([hsla |-> Resolve(color, dark_mode), dark_mode |-> dark_mode])
    /\ UNCHANGED <<color, calls, view, tree, clicks, invoked, built>>

NextColor == ColorOpacity \/ ColorResolve

SpecColor == InitColor /\ [][NextColor]_vars

C4_OpacityMakesStatic ==
    calls # <<>> =>
        /\ ~is_semantic(color)
        /\ color.hsla.a = LastCall.alpha * 255
        /\ Resolve(color, TRUE) = Resolve(color, FALSE)
        /\ IsSome(resolved) => Unwrap(resolved).hsla = color.hsla

\* Color::label().opacity(0.5) resolved in dark mode
C4_Witness ==
    /\ Len(calls) = 1
    /\ LastCall.self = ColorLabel
    /\ LastCall.alpha = 500
    /\ IsSome(resolved)
    /\ Unwrap(resolved).dark_mode

(***************************************************************************)
(* Specification of Button: built by Button::new or Button::with_id,       *)
(* configured by its builder methods, rendered once, then clicked.         *)
(***************************************************************************)

\* Most builder calls made on one Button after its constructor
MaxButtonCalls == 3
\* Most clicks delivered to one rendered Button
MaxButtonClicks == 2

Actions == {"submit", "cancel"}
ButtonStyles == {"Automatic", "Bordered", "BorderedProminent", "Plain", "Borderless"}

InitButton ==
    /\ \/ /\ view = ButtonNew("OK", "submit")
          /\ calls = <<[action |-> Some("submit"), kind |-> "new"]>>
       \/ /\ view = ButtonWithId("ok-btn")
          /\ calls = <<[action |-> None, kind |-> "with_id"]>>
    /\ tree = None
    /\ clicks = 0
    /\ invoked = <<>>
    /\ built = <<>>
    /\ color = IdleColor
    /\ resolved = None

ButtonCall(b, call) ==
    /\ tree = None
    /\ Len(calls) < MaxButtonCalls + 1
    /\ view' = b
    /\ calls' = Append(calls, call)
    /\ UNCHANGED <<tree, clicks, invoked, built, color, resolved>>

CallOnClick ==
    \E action \in Actions :
        ButtonCall(ButtonOnClick(view, action), [action |-> Some(action), kind |-> "on_click"])

CallButtonDisabled ==
    \E b \in BOOLEAN :
        ButtonCall(disabled(view, [is_disabled |-> b, kind |-> "Disabled"]),
                   [is_disabled |-> b, kind |-> "disabled"])

CallLabel == ButtonCall(ButtonLabel(view, "Send"), [label |-> "Send", kind |-> "label"])

CallButtonStyle ==
    \E style \in ButtonStyles :
        ButtonCall(ButtonStyle(view, style), [style |-> style, kind |-> "button_style"])

ClickButton == ClickUpTo(MaxButtonClicks)

NextButton ==
    \/ CallOnClick \/ CallButtonDisabled \/ CallLabel \/ CallButtonStyle
    \/ RenderView \/ ClickButton

SpecButton == InitButton /\ [][NextButton]_vars

\* The argument of the last disabled(...) call; a new Button is enabled
LastDisabledArg ==
    LET S == {k \in 1..Len(calls) : calls[k].kind = "disabled"}
    IN IF S = {} THEN FALSE ELSE calls[CHOOSE k \in S : \A j \in S : j <= k].is_disabled

\* The action set last, by the constructor or by on_click
LastActionArg ==
    LET S == {k \in 1..Len(calls) : calls[k].kind \in {"on_click", "new", "with_id"}}
    IN calls[CHOOSE k \in S : \A j \in S : j <= k].action

\* C7: whatever the order of the on_click and disabled calls, a Button whose
\* last disabled value is true registers no listener and no click runs
\* anything; one that is enabled and has an action runs the action set last,
\* once per click; one without an action registers no listener.
C7_DisabledButtonNeverRuns ==
    IsSome(tree) =>
        LET e == Unwrap(tree)
        IN IF LastDisabledArg \/ LastActionArg = None
           THEN Listeners(e) = {} /\ invoked = <<>>
           ELSE /\ e.on_click = LastActionArg
                /\ Listeners(e) = {Unwrap(LastActionArg)}
                /\ invoked = [i \in 1..clicks |-> Unwrap(LastActionArg)]

\* on_click, then disabled(true), then another on_click: rendered and clicked
C7_Witness ==
    /\ IsSome(tree)
    /\ Len(calls) = 4
    /\ calls[2].kind = "on_click" /\ calls[3].kind = "disabled" /\ calls[3].is_disabled
    /\ calls[4].kind = "on_click"
    /\ clicks = 2
    /\ invoked = <<>>

\* an enabled Button clicked twice runs its last action twice
C7_WitnessEnabled ==
    /\ IsSome(tree)
    /\ Len(calls) = 4
    /\ calls[1].kind = "with_id"
    /\ calls[2].kind = "disabled" /\ calls[2].is_disabled
    /\ calls[3].kind = "on_click" /\ calls[4].kind = "disabled" /\ ~calls[4].is_disabled
    /\ clicks = 2
    /\ invoked = <<"cancel", "cancel">>

(***************************************************************************)
(* Specification of control flow and containers: an If, an IfLet or a      *)
(* container is constructed, filled by its builder calls and rendered.     *)
(***************************************************************************)

\* Most builder calls made on one If or container after its constructor
MaxLayoutCalls == 3

ThenBuilders == {"profile", "home"}
OtherwiseBuilders == {"login"}
ItemBuilders == {"row", "cell"}
OptionValues == {None, Some(1), Some(2)}
ItemLists == {<<>>, <<1>>, <<2, 1>>, <<1, 2, 2>>}
ChildViews == {Apply("text", 1), Apply("text", 2)}
ChildLists == {<<>>, <<Apply("text", 3)>>, <<Apply("text", 2), Apply("text", 1)>>}

InitLayout ==
    /\ \/ \E c \in BOOLEAN :
              /\ view = IfNew(c)
              /\ calls = <<[kind |-> "If::new", condition |-> c]>>
       \/ \E value \in OptionValues, f \in ItemBuilders :
              /\ view = IfLetNew(value, f)
              /\ calls = <<[value |-> value, kind |-> "IfLet::new", builder |-> f]>>
       \/ \E v \in {VStackNew, HStackNew, ZStackNew, GroupNew, ScrollViewNew("scroll")} :
              /\ view = v
              /\ calls = <<[type |-> v.type, kind |-> "new"]>>
    /\ tree = None
    /\ clicks = 0
    /\ invoked = <<>>
    /\ built = <<>>
    /\ color = IdleColor
    /\ resolved = None

LayoutCall(v, call, closure_calls) ==
    /\ tree = None
    /\ Len(calls) < MaxLayoutCalls + 1
    /\ view' = v
    /\ calls' = Append(calls, call)
    /\ built' = built \o closure_calls
    /\ UNCHANGED <<tree, clicks, invoked, color, resolved>>

\* view = view.then(f)
CallThen ==
    /\ view.type = "If"
    /\ \E f \in ThenBuilders :
           LayoutCall(IfThen(view, f), [kind |-> "then", builder |-> f],
                      <<BuiltEntry(f, 0)>>)

\* view = view.otherwise(f)
CallOtherwise ==
    /\ view.type = "If"
    /\ \E f \in OtherwiseBuilders :
           LayoutCall(IfOtherwise(view, f), [kind |-> "otherwise", builder |-> f],
                      <<BuiltEntry(f, 0)>>)

\* view = view.child(x)
CallChild ==
    /\ view.type \in ContainerTypes
    /\ \E x \in ChildViews :
           LayoutCall(child(view, x), [kind |-> "child", views |-> <<x>>], <<>>)

\* view = view.children(xs)
CallChildren ==
    /\ view.type \in ContainerTypes
    /\ \E xs \in ChildLists :
           LayoutCall(children(view, xs), [kind |-> "children", views |-> xs], <<>>)

\* view = view.children(ForEach::new(items, f))
CallChildrenForEach ==
    /\ view.type \in ContainerTypes
    /\ \E items \in ItemLists, f \in ItemBuilders :
           LayoutCall(children(view, ForEachViews(items, f)),
                      [kind |-> "for_each", builder |-> f, items |-> items],
                      ForEachBuilds(items, f))

NextLayout ==
    \/ CallThen \/ CallOtherwise
    \/ CallChild \/ CallChildren \/ CallChildrenForEach
    \/ RenderView

SpecLayout == InitLayout /\ [][NextLayout]_vars

\* The builder given by the last call of a kind, None when there is no such call
LastBuilder(kind) ==
    LET S == {k \in 1..Len(calls) : calls[k].kind = kind}
    IN IF S = {} THEN None ELSE Some(calls[CHOOSE k \in S : \A j \in S : j <= k].builder)

\* The texts shown anywhere in a tree
Texts(e) == {Unwrap(x.text) : x \in {y \in Elements(e) : IsSome(y.text)}}

\* C8: If renders the view of the branch its condition selects, as the only
\* child of its container, and an empty container when that branch has no
\* view; nothing of the other branch's view is in the tree.
C8_IfRendersSelectedBranch ==
    (IsSome(tree) /\ calls[1].kind = "If::new") =>
        LET e == Unwrap(tree)
            selected == LastBuilder(IF calls[1].condition THEN "then" ELSE "otherwise")
            other == IF calls[1].condition THEN OtherwiseBuilders ELSE ThenBuilders
        IN /\ IF IsSome(selected)
              THEN \E d \in BOOLEAN :
                       e = WithChild(Div, Render(Apply(Unwrap(selected), 0), d))
              ELSE e = Div
           /\ \A t \in Texts(e) : t[1] \notin other

\* If::new(false).then(..).otherwise(..) rendered: the otherwise view alone
C8_Witness ==
    /\ IsSome(tree)
    /\ calls[1].kind = "If::new" /\ ~calls[1].condition
    /\ IsSome(LastBuilder("then")) /\ IsSome(LastBuilder("otherwise"))
    /\ Texts(Unwrap(tree)) = {<<"login", 0>>}

\* If::new(true).otherwise(..) rendered: an empty container
C8_WitnessEmpty ==
    /\ IsSome(tree)
    /\ calls[1].kind = "If::new" /\ calls[1].condition
    /\ LastBuilder("then") = None /\ IsSome(LastBuilder("otherwise"))
    /\ Unwrap(tree) = Div

\* C9: IfLet calls its builder only when it is rendered with Some(x), once
\* and with x, and the built view is the single child of its container; with
\* None the builder is never called and the container is empty.
C9_IfLetRendersSome ==
    calls[1].kind = "IfLet::new" =>
        /\ tree = None => built = <<>>
        /\ IsSome(tree) =>
               IF IsSome(calls[1].value)
               THEN /\ built = <<BuiltEntry(calls[1].builder, Unwrap(calls[1].value))>>
                    /\ \E d \in BOOLEAN :
                           Unwrap(tree) =
                               WithChild(Div, Render(Apply(calls[1].builder,
                                                           Unwrap(calls[1].value)), d))
               ELSE built = <<>> /\ Unwrap(tree) = Div

\* IfLet::new(Some(2), cell) rendered
C9_Witness ==
    /\ IsSome(tree)
    /\ calls[1].kind = "IfLet::new" /\ calls[1].value = Some(2)
    /\ Texts(Unwrap(tree)) = {<<calls[1].builder, 2>>}

\* The views and the closure calls that calls 2..k of a container ask for
RECURSIVE ExpectedViews(_)
ExpectedViews(k) ==
    IF k < 2 THEN <<>>
    ELSE ExpectedViews(k - 1) \o
             (IF calls[k].kind = "for_each"
              THEN [i \in 1..Len(calls[k].items) |->
                        Apply(calls[k].builder, calls[k].items[i])]
              ELSE calls[k].views)

RECURSIVE ExpectedBuilds(_)
ExpectedBuilds(k) ==
    IF k < 2 THEN <<>>
    ELSE ExpectedBuilds(k - 1) \o
             (IF calls[k].kind = "for_each"
              THEN [i \in 1..Len(calls[k].items) |->
                        BuiltEntry(calls[k].builder, calls[k].items[i])]
              ELSE <<>>)

\* The views a rendered container shows, in order; a ZStack shows each in a
\* wrapper that has that one child
Shown(e) ==
    IF view.type = "ZStack"
    THEN [i \in 1..Len(e.children) |-> e.children[i].children]
    ELSE [i \in 1..Len(e.children) |-> <<e.children[i]>>]

\* C10: a container renders the arguments of its child and children calls,
\* concatenated in call order, none lost or duplicated; a ForEach gives
\* f(item) once per item, in item order.
C10_ChildrenKeepOrder ==
    (calls[1].kind = "new" /\ calls[1].type \in ContainerTypes) =>
        /\ built = ExpectedBuilds(Len(calls))
        /\ IsSome(tree) =>
               \E d \in BOOLEAN :
                   Shown(Unwrap(tree)) =
                       [i \in 1..Len(ExpectedViews(Len(calls))) |->
                            <<Render(ExpectedViews(Len(calls))[i], d)>>]

\* a ZStack given child(x), children(ForEach(<<2, 1>>, f)), child(y), rendered
C10_Witness ==
    /\ IsSome(tree)
    /\ calls[1].kind = "new" /\ calls[1].type = "ZStack"
    /\ Len(calls) = 4
    /\ calls[2].kind = "child"
    /\ calls[3].kind = "for_each" /\ calls[3].items = <<2, 1>>
    /\ calls[4].kind = "child"
    /\ Len(Unwrap(tree).children) = 4

(***************************************************************************)
(* Lazy grids: layout/grid_item.rs, layout/lazy_vgrid.rs,                  *)
(* layout/lazy_hgrid.rs.  Sizes are whole pixels.                          *)
(***************************************************************************)

\* f32::INFINITY, the max of a flexible grid item
Infinity == 1000000

\* GridItem::fixed(size), GridItem::flexible(), GridItem::adaptive(min)
GridItemFixed(size) ==
    [alignment |-> None, spacing |-> None, size |-> [kind |-> "Fixed", size |-> size]]
GridItemFlexible ==
    [alignment |-> None,
     spacing |-> None, size |-> [max |-> Infinity, min |-> 10, kind |-> "Flexible"]]
GridItemAdaptive(min) ==
    [alignment |-> None, spacing |-> None, size |-> [min |-> min, kind |-> "Adaptive"]]

\* ((available + spacing) / (min + spacing)).floor() as usize, then max(1):
\* a quotient below zero saturates to 0
FitCount(available, spacing, min) ==
    Max2((available + spacing) \div (min + spacing), 1)

\* LazyVGrid::new(entity, element_id, scroll_handle)
LazyVGridNew(element_id) ==
    [type |-> "LazyVGrid", element_id |-> element_id, columns |-> <<GridItemFlexible>>,
     horizontal_spacing |-> 0, vertical_spacing |-> 0, item_count |-> 0,
     render_fn |-> None, container_width |-> None, row_height |-> 100]

\* LazyHGrid::new(entity, element_id, scroll_handle)
LazyHGridNew(element_id) ==
    [type |-> "LazyHGrid", element_id |-> element_id, horizontal_spacing |-> 0,
     vertical_spacing |-> 0, item_count |-> 0, render_fn |-> None,
     rows |-> <<GridItemFlexible>>, container_height |-> None, column_width |-> 100]

\* LazyVGrid::column_count(available_width): the first adaptive column decides
LazyVGrid_column_count(g, available_width) ==
    LET S == {i \in 1..Len(g.columns) : g.columns[i].size.kind = "Adaptive"}
    IN IF S # {}
       THEN LET i == CHOOSE k \in S : \A j \in S : k <= j
            IN FitCount(available_width, g.horizontal_spacing, g.columns[i].size.min)
       ELSE Max2(Len(g.columns), 1)

\* LazyHGrid::row_count(available_height)
LazyHGrid_row_count(g, available_height) ==
    LET S == {i \in 1..Len(g.rows) : g.rows[i].size.kind = "Adaptive"}
    IN IF S # {}
       THEN LET i == CHOOSE k \in S : \A j \in S : k <= j
            IN FitCount(available_height, g.vertical_spacing, g.rows[i].size.min)
       ELSE Max2(Len(g.rows), 1)

\* The expansion both grids apply to their column / row definitions: every
\* adaptive item becomes count flexible items with its min
RECURSIVE Expand(_, _)
Expand(items, count) ==
    IF items = <<>> THEN <<>>
    ELSE LET it == Head(items)
         IN (IF it.size.kind = "Adaptive"
             THEN [k \in 1..count |->
                      [alignment |-> it.alignment,
                       spacing |-> it.spacing, size |-> [max |-> Infinity, min |-> it.size.min, kind |-> "Flexible"]]]
             ELSE <<it>>) \o Expand(Tail(items), count)

\* LazyVGrid::effective_columns(available_width)
LazyVGrid_effective_columns(g, available_width) ==
    LET result == Expand(g.columns, LazyVGrid_column_count(g, available_width))
    IN IF result = <<>> THEN <<GridItemFlexible>> ELSE result

\* LazyHGrid::effective_rows(available_height)
LazyHGrid_effective_rows(g, available_height) ==
    LET result == Expand(g.rows, LazyHGrid_row_count(g, available_height))
    IN IF result = <<>> THEN <<GridItemFlexible>> ELSE result

\* usize::div_ceil
div_ceil(n, d) == (n + d - 1) \div d

\* A line count that leaves out the last, partly filled line
LazyVGrid_row_count_floor(g, col_count) ==
    IF col_count = 0 \/ g.item_count = 0 THEN 0 ELSE g.item_count \div col_count

\* LazyVGrid::row_count(col_count)
LazyVGrid_row_count(g, col_count) ==
    IF col_count = 0 \/ g.item_count = 0 THEN 0 ELSE div_ceil(g.item_count, col_count)

\* LazyHGrid::column_count(row_count)
LazyHGrid_column_count(g, row_count) ==
    IF row_count = 0 \/ g.item_count = 0 THEN 0 ELSE div_ceil(g.item_count, row_count)

\* The effective columns of a LazyVGrid / rows of a LazyHGrid as build computes them
EffectiveTracks(g) ==
    IF g.type = "LazyVGrid"
    THEN LazyVGrid_effective_columns(
             g, IF IsSome(g.container_width) THEN Unwrap(g.container_width) ELSE 400)
    ELSE LazyHGrid_effective_rows(
             g, IF IsSome(g.container_height) THEN Unwrap(g.container_height) ELSE 300)

\* The number of lines build hands to the virtual list (the length of item_sizes)
LineCount(g) ==
    IF g.type = "LazyVGrid"
    THEN LazyVGrid_row_count(g, Len(EffectiveTracks(g)))
    ELSE LazyHGrid_column_count(g, Len(EffectiveTracks(g)))

\* One cell of a line: sized by its column / row, holding the item if there is one
GridCell(g, track, item_idx) ==
    LET sized ==
            CASE track.size.kind = "Fixed" ->
                     Styled(Div, <<IF g.type = "LazyVGrid" THEN "w" ELSE "h", track.size.size>>)
              [] track.size.kind = "Flexible" -> Styled(Div, <<"flex_1">>)
              [] track.size.kind = "Adaptive" ->
                     Styled(Styled(Div, <<IF g.type = "LazyVGrid" THEN "min_w" ELSE "min_h",
                                          track.size.min>>),
                            <<"flex_1">>)
    IN IF item_idx < g.item_count /\ IsSome(g.render_fn)
       THEN WithChild(sized, TextNode(<<Unwrap(g.render_fn), item_idx>>))
       ELSE sized

\* The closure build gives the virtual list, for one line index: a row of a
\* LazyVGrid, a column of a LazyHGrid
GridLine(g, line_idx) ==
    LET tracks == EffectiveTracks(g)
        count == Len(tracks)
        line == IF g.type = "LazyVGrid"
                THEN Styled(Styled(Styled(Div, <<"flex">>), <<"flex_row">>),
                            <<"gap", g.horizontal_spacing>>)
                ELSE Styled(Styled(Styled(Div, <<"flex">>), <<"flex_col">>),
                            <<"gap", g.vertical_spacing>>)
    IN WithChildren(line,
           [k \in 1..count |-> GridCell(g, tracks[k], line_idx * count + (k - 1))])

\* The calls of the render function made while one line is built, in order
GridLineBuilds(g, line_idx) ==
    LET count == Len(EffectiveTracks(g))
        RECURSIVE Cat(_)
        Cat(k) == IF k > count THEN <<>>
                  ELSE (IF line_idx * count + (k - 1) < g.item_count /\ IsSome(g.render_fn)
                        THEN <<BuiltEntry(Unwrap(g.render_fn), line_idx * count + (k - 1))>>
                        ELSE <<>>) \o Cat(k + 1)
    IN Cat(1)

\* LazyVGrid::build / LazyHGrid::build: the virtual list, no line rendered yet
GridBuild(g) ==
    Styled(WithId(Div, g.element_id), <<"item_sizes", LineCount(g)>>)

(***************************************************************************)
(* Specification of the lazy grids: a grid is configured, built, and the   *)
(* virtual list asks the grid's closure for the lines of a visible range.  *)
(***************************************************************************)

\* Longest list of column / row definitions
MaxTracks == 2
\* Largest item_count
MaxItems == 4
\* Most visible ranges the host asks for
MaxPasses == 1

GridItems == {GridItemFixed(100), GridItemAdaptive(150)}
TrackLists == UNION {[1..n -> GridItems] : n \in 0..MaxTracks}

InitGrid ==
    /\ view \in {LazyVGridNew("grid"), LazyHGridNew("grid")}
    /\ calls = <<>>
    /\ tree = None
    /\ clicks = 0
    /\ invoked = <<>>
    /\ built = <<>>
    /\ color = IdleColor
    /\ resolved = None

GridSet(g) ==
    /\ tree = None
    /\ view' = g
    /\ UNCHANGED <<calls, tree, clicks, invoked, built, color, resolved>>

\* LazyVGrid::columns
GridColumns ==
    /\ view.type = "LazyVGrid"
    /\ \E cols \in TrackLists : GridSet([view EXCEPT !.columns = cols])

\* LazyHGrid::rows
GridRows ==
    /\ view.type = "LazyHGrid"
    /\ \E rows \in TrackLists : GridSet([view EXCEPT !.rows = rows])

\* spacing
GridSpacing ==
    GridSet([view EXCEPT !.horizontal_spacing = 50, !.vertical_spacing = 50])

\* item_count
GridItemCount == \E n \in 0..MaxItems : GridSet([view EXCEPT !.item_count = n])

\* LazyVGrid::container_width
GridContainerWidth ==
    /\ view.type = "LazyVGrid"
    /\ GridSet([view EXCEPT !.container_width = Some(250)])

\* LazyHGrid::container_height
GridContainerHeight ==
    /\ view.type = "LazyHGrid"
    /\ GridSet([view EXCEPT !.container_height = Some(250)])

\* render_item
GridRenderItem == GridSet([view EXCEPT !.render_fn = Some("cell")])

\* build
GridBuildCall ==
    /\ tree = None
    /\ tree' = Some(GridBuild(view))
    /\ UNCHANGED <<view, calls, clicks, invoked, built, color, resolved>>

\* The virtual list calls the closure with a visible range lo..hi of its
\* item_sizes; the lines the closure returns become the list's children
GridVisibleRange ==
    /\ IsSome(tree)
    /\ Len(calls) < MaxPasses
    /\ \E lo \in 0..LineCount(view) : \E hi \in lo..LineCount(view) :
           LET RECURSIVE Cat(_)
               Cat(i) == IF i >= hi THEN <<>> ELSE GridLineBuilds(view, i) \o Cat(i + 1)
           IN /\ calls' = Append(calls, [kind |-> "visible_range", lo |-> lo, hi |-> hi])
              /\ tree' = Some([GridBuild(view) EXCEPT
                                   !.children = [k \in 1..(hi - lo) |-> GridLine(view, lo + k - 1)]])
              /\ built' = built \o Cat(lo)
    /\ UNCHANGED <<view, clicks, invoked, color, resolved>>

NextGrid ==
    \/ GridColumns \/ GridRows \/ GridSpacing \/ GridItemCount
    \/ GridContainerWidth \/ GridContainerHeight \/ GridRenderItem
    \/ GridBuildCall \/ GridVisibleRange

SpecGrid == InitGrid /\ [][NextGrid]_vars

\* The number of lines the virtual list was built with
BuiltLines == (CHOOSE st \in Unwrap(tree).styles : st[1] = "item_sizes")[2]

\* The render-function calls a visible range lo..hi has to make: the indices
\* of its lines that are below n, ascending, once each
RangeBuilds(f, c, n, lo, hi) ==
    [i \in 1..Max2(0, Min2(hi * c, n) - lo * c) |-> BuiltEntry(f, lo * c + i - 1)]

\* The render-function calls of the first k visible ranges
RECURSIVE ExpectedGridBuilds(_)
ExpectedGridBuilds(k) ==
    IF k = 0 \/ ~IsSome(view.render_fn) THEN <<>>
    ELSE ExpectedGridBuilds(k - 1)
             \o RangeBuilds(Unwrap(view.render_fn), Len(EffectiveTracks(view)),
                            view.item_count, calls[k].lo, calls[k].hi)

\* C11: a built grid with C effective columns (rows for a LazyHGrid) and N
\* items has ceil(N/C) lines, none when N = 0, the last holding at least one
\* item; a LazyVGrid's lines are rows and a LazyHGrid's lines are columns;
\* every rendered line l has C cells and its cell p holds item l*C + p when
\* that is below N and is empty otherwise; the render function is called once
\* for each such item, in ascending order, so a range over all the lines
\* calls it exactly once for each index 0..N-1 and never with an index >= N.
C11_GridCellsInOrder ==
    (IsSome(tree) /\ view.type \in {"LazyVGrid", "LazyHGrid"}) =>
        LET C == Len(EffectiveTracks(view))
            N == view.item_count
            R == BuiltLines
            e == Unwrap(tree)
        IN /\ C >= 1
           /\ R * C >= N /\ (R > 0 => (R - 1) * C < N)
           /\ built = ExpectedGridBuilds(Len(calls))
           /\ \A i \in 1..Len(built) : built[i].arg < N
           /\ calls # <<>> =>
                  LET lo == calls[Len(calls)].lo
                      hi == calls[Len(calls)].hi
                  IN /\ Len(e.children) = hi - lo
                     /\ \A k \in 1..(hi - lo) :
                            LET line == e.children[k]
                                l == lo + k - 1
                            IN /\ Len(line.children) = C
                               /\ (IF view.type = "LazyVGrid"
                                   THEN <<"flex_row">> ELSE <<"flex_col">>) \in line.styles
                               /\ \A p \in 0..(C - 1) :
                                      line.children[p + 1].children =
                                          IF l * C + p < N /\ IsSome(view.render_fn)
                                          THEN <<TextNode(<<Unwrap(view.render_fn), l * C + p>>)>>
                                          ELSE <<>>
                     /\ (lo = 0 /\ hi = R /\ IsSome(view.render_fn) /\ Len(calls) = 1) =>
                            built = [i \in 1..N |-> BuiltEntry(Unwrap(view.render_fn), i - 1)]

\* a LazyVGrid of two adaptive-expanded or fixed columns and three items,
\* all its lines rendered: the last row holds one item and one empty cell
C11_Witness ==
    /\ IsSome(tree)
    /\ view.type = "LazyVGrid"
    /\ Len(EffectiveTracks(view)) = 2 /\ view.item_count = 3
    /\ IsSome(view.render_fn)
    /\ calls # <<>> /\ calls[1].lo = 0 /\ calls[1].hi = 2
    /\ Len(built) = 3
    /\ Unwrap(tree).children[2].children[2].children = <<>>

\* a LazyHGrid of three rows and four items, all its lines rendered: the
\* second column holds item 3 in its first cell
C11_WitnessHGrid ==
    /\ IsSome(tree)
    /\ view.type = "LazyHGrid"
    /\ Len(EffectiveTracks(view)) = 3 /\ view.item_count = 4
    /\ IsSome(view.render_fn)
    /\ calls # <<>> /\ calls[1].lo = 0 /\ calls[1].hi = 2
    /\ Unwrap(tree).children[2].children[1].children = <<TextNode(<<"cell", 3>>)>>

(***************************************************************************)
(* Specification of Label: a label is constructed, may be given a color,   *)
(* and is rendered.                                                        *)
(***************************************************************************)

\* Most parts a system image name is put together from
MaxParts == 3

\* The parts of the names: mapped names in several cases, the suffixes the
\* table knows, and pieces that make ".fill" appear once a ".fill" is removed
NameParts ==
    {<<"s", "t", "a", "r">>,
     <<"S", "T", "A", "R">>,
     <<"S", "t", "a", "r">>,
     <<".", "f", "i", "l", "l">>,
     <<".", "F", "I", "L", "L">>,
     <<".", "o", "f", "f">>,
     <<"p", "l", "u", "s">>,
     <<".", "c", "i", "r", "c", "l", "e">>,
     <<"x">>,
     <<"s", "t", "a", "r", ".", "f", "i">>,
     <<"l", "l">>}

RECURSIVE NamesOf(_)
NamesOf(n) ==
    IF n = 0 THEN {<<>>}
    ELSE NamesOf(n - 1) \cup {name \o part : name \in NamesOf(n - 1), part \in NameParts}

SystemImages == NamesOf(MaxParts)
Titles == {<<"F", "a", "v", "o", "r", "i", "t", "e", "s">>, <<>>}

InitLabel ==
    /\ view \in {LabelNew(name, title) : name \in SystemImages, title \in Titles}
                    \cup {LabelWithIcon("Star", title) : title \in Titles}
                    \cup {LabelTitle(title) : title \in Titles}
    /\ calls = <<>>
    /\ tree = None
    /\ clicks = 0
    /\ invoked = <<>>
    /\ built = <<>>
    /\ color = IdleColor
    /\ resolved = None

\* Label::foreground_color
LabelForegroundColor ==
    /\ tree = None
    /\ \E c \in {ColorRed, ColorLabel} : view' = SetColor(view, c)
    /\ UNCHANGED <<calls, tree, clicks, invoked, built, color, resolved>>

NextLabel == LabelForegroundColor \/ RenderView

SpecLabel == InitLabel /\ [][NextLabel]_vars

Star == <<"s", "t", "a", "r">>
STAR == <<"S", "T", "A", "R">>
StarFill == <<"s", "t", "a", "r", ".", "f", "i", "l", "l">>

\* C12: a Label made by Label::new(name, title) renders exactly two
\* children, a leading element and then the title; the leading element is
\* the icon the table gives for the name lower-cased with every ".fill"
\* removed, and the text "[name]" with the name as given when the table has
\* none; "star", "STAR" and "star.fill" all give the Star icon.
C12_UnmappedIconFallsBack ==
    (IsSome(tree) /\ view.type = "Label" /\ IsSome(view.icon)
         /\ Unwrap(view.icon).kind = "String") =>
        LET name == Unwrap(view.icon).value
            e == Unwrap(tree)
            icon == IconMatch(Normalized(name))
        IN /\ Len(e.children) = 2
           /\ e.children[2] = TextNode(view.title)
           /\ IF IsSome(icon)
              THEN /\ <<"icon", Unwrap(icon)>> \in e.children[1].styles
                   /\ e.children[1].children = <<>>
              ELSE /\ e.children[1].children = <<TextNode(<<"[">> \o name \o <<"]">>)>>
                   /\ \A st \in e.children[1].styles : st[1] # "icon"
           /\ name \in {Star, STAR, StarFill} => <<"icon", "Star">> \in e.children[1].styles

\* a name the table does not know, rendered: the placeholder and the title
C12_Witness ==
    /\ IsSome(tree)
    /\ view.type = "Label" /\ IsSome(view.icon) /\ Unwrap(view.icon).kind = "String"
    /\ Unwrap(view.icon).value = <<"s", "t", "a", "r", ".", "f", "i", ".", "f", "i", "l", "l", "l", "l">>
    /\ Len(Unwrap(tree).children) = 2
    /\ Unwrap(tree).children[1].children = <<TextNode(<<"[", "s", "t", "a", "r", ".", "f", "i", ".", "f", "i", "l", "l", "l", "l", "]">>)>>

\* "STAR.fill" rendered with the Star icon
C12_WitnessMapped ==
    /\ IsSome(tree)
    /\ view.type = "Label" /\ IsSome(view.icon) /\ Unwrap(view.icon).kind = "String"
    /\ Unwrap(view.icon).value = <<"S", "T", "A", "R", ".", "f", "i", "l", "l">>
    /\ <<"icon", "Star">> \in Unwrap(tree).children[1].styles

====
